---- MODULE Spec2Model ----
(***************************************************************************)
(* Model of the Tak search engine of package ai: the static evaluator      *)
(* (ai/evaluate.go) and the iterative-deepening alpha-beta searcher with   *)
(* its transposition table (minimax.go).  The rule engine (package tak)    *)
(* and the bitboard primitives (package bitboard) are collaborators whose  *)
(* sources are not part of the tree; they are modelled from their          *)
(* documented interface.                                                   *)
(***************************************************************************)
EXTENDS Integers, Sequences, FiniteSets, TLC

(***************************************************************************)
(* Program constants                                                       *)
(***************************************************************************)
maxEval == 1073741824

minEval == -maxEval

winThreshold == 536870912

tableSize == 1048576

White == "White"

Black == "Black"

NoColor == "NoColor"

PlaceFlat == "PlaceFlat"

PlaceStanding == "PlaceStanding"

PlaceCapstone == "PlaceCapstone"

SlideLeft == "SlideLeft"

SlideRight == "SlideRight"

SlideUp == "SlideUp"

SlideDown == "SlideDown"

\* the zero value of a move's type, which no move the rules allow has
NoType == "NoType"

\* the numeric order of the move kinds: slides compare greater than placements
TypeOrd ==
  [NoType |-> 0, PlaceFlat |-> 1, PlaceStanding |-> 2, PlaceCapstone |-> 3,
   SlideLeft |-> 4, SlideRight |-> 5, SlideUp |-> 6, SlideDown |-> 7]

DefaultWeights ==
  [TopFlat |-> 400, Standing |-> 200, Capstone |-> 300,
   Flat |-> 100, Liberties |-> 20, Captured |-> 25, Tempo |-> 250,
   Groups |-> [i \in 0..7 |-> CASE i = 3 -> 100 [] i = 4 -> 300 [] i = 5 -> 500 [] OTHER -> 0]]

(***************************************************************************)
(* Bounds of the model                                                     *)
(***************************************************************************)
\* plies spent on slides on top of the plies that placed the pieces on the board
MaxSlack == 1

(***************************************************************************)
(* Bitboards: a uint64 is the set of its set bit positions, bit y*S+x      *)
(* standing for square (x,y).                                              *)
(***************************************************************************)
Bits64 == 0..63

Not64(b) == Bits64 \ b

Popcount(b) == Cardinality(b)

Precompute(s) ==
  [Size |-> s,
   L |-> {y * s : y \in 0..(s - 1)},
   R |-> {y * s + (s - 1) : y \in 0..(s - 1)},
   B |-> 0..(s - 1),
   T |-> {(s - 1) * s + x : x \in 0..(s - 1)},
   Mask |-> 0..(s * s - 1)]

\* orthogonal neighbourhood of seed (with seed itself) inside `within`;
\* left/right shifts do not cross a row boundary, up/down are plain shifts
Grow(c, within, seed) ==
  (seed
     \cup {i + 1 : i \in seed \ c.R}
     \cup {i - 1 : i \in seed \ c.L}
     \cup {i - c.Size : i \in {k \in seed : k >= c.Size}}
     \cup {i + c.Size : i \in {k \in seed : k + c.Size <= 63}}) \cap within

SetMin(S) == CHOOSE x \in S : \A y \in S : x <= y

SetMax(S) == CHOOSE x \in S : \A y \in S : x >= y

\* width and height of the bounding box of g, <<0, 0>> for the empty board
Dimensions(c, g) ==
  IF g = {} THEN <<0, 0>>
  ELSE LET xs == {i % c.Size : i \in g}
           ys == {i \div c.Size : i \in g}
       IN <<SetMax(xs) - SetMin(xs) + 1, SetMax(ys) - SetMin(ys) + 1>>

RECURSIVE Flood(_, _, _)
Flood(c, within, seed) ==
  LET next == Grow(c, within, seed)
  IN IF next = seed THEN seed ELSE Flood(c, within, next)

\* the maximal 4-connected components of stones, lowest bit first
RECURSIVE FloodGroups(_, _)
FloodGroups(c, stones) ==
  IF stones = {} THEN <<>>
  ELSE LET g == Flood(c, stones, {SetMin(stones)})
       IN <<g>> \o FloodGroups(c, stones \ g)

(***************************************************************************)
(* Positions (package tak).  A square holds a stack of pieces, bottom      *)
(* first; only the top piece may be standing or a capstone.                *)
(***************************************************************************)
Flat == "flat"

Standing == "standing"

Capstone == "cap"

Piece(color, kind) == [c |-> color, k |-> kind]

Opp(color) == IF color = White THEN Black ELSE White

\* the reserve a player starts with on a board of size s
Reserve(s) ==
  CASE s = 3 -> [stones |-> 10, caps |-> 0]
    [] s = 4 -> [stones |-> 15, caps |-> 0]
    [] s = 5 -> [stones |-> 21, caps |-> 1]
    [] s = 6 -> [stones |-> 30, caps |-> 1]
    [] s = 7 -> [stones |-> 40, caps |-> 2]
    [] OTHER -> [stones |-> 50, caps |-> 2]

Squares(s) == 0..(s * s - 1)

Top(stack) == stack[Len(stack)]

CountOn(board, s, color, caps) ==
  LET n[i \in -1..(s * s - 1)] ==
        IF i = -1 THEN 0
        ELSE n[i - 1] + Cardinality({j \in 1..Len(board[i]) :
                 /\ board[i][j].c = color
                 /\ (board[i][j].k = Capstone) = caps})
  IN n[s * s - 1]

\* the fields of a Position that the evaluator and the searcher read;
\* White moves on the even plies
MakePosition(s, board, move) ==
  LET occ == {i \in Squares(s) : Len(board[i]) > 0}
  IN [size |-> s,
      White |-> {i \in occ : Top(board[i]).c = White},
      Black |-> {i \in occ : Top(board[i]).c = Black},
      Standing |-> {i \in occ : Top(board[i]).k = Standing},
      Caps |-> {i \in occ : Top(board[i]).k = Capstone},
      Height |-> [i \in Squares(s) |-> Len(board[i])],
      Stacks |-> [i \in Squares(s) |->
                    {j - 1 : j \in {k \in 1..Len(board[i]) : board[i][k].c = Black}}],
      move |-> move,
      toMove |-> IF move % 2 = 0 THEN White ELSE Black,
      whiteStones |-> Reserve(s).stones - CountOn(board, s, White, FALSE),
      blackStones |-> Reserve(s).stones - CountOn(board, s, Black, FALSE),
      whiteCaps |-> Reserve(s).caps - CountOn(board, s, White, TRUE),
      blackCaps |-> Reserve(s).caps - CountOn(board, s, Black, TRUE)]

Size(p) == p.size

MoveNumber(p) == p.move

ToMove(p) == p.toMove

WhiteStones(p) == p.whiteStones

BlackStones(p) == p.blackStones

\* the road-contributing squares of a colour: its flats and capstones
RoadSquares(p, color) ==
  (IF color = White THEN p.White ELSE p.Black) \ p.Standing

Analysis(p) ==
  LET c == Precompute(p.size)
  IN [WhiteGroups |-> FloodGroups(c, RoadSquares(p, White)),
      BlackGroups |-> FloodGroups(c, RoadSquares(p, Black))]

HasRoad(p, color) ==
  LET c == Precompute(p.size)
      gs == FloodGroups(c, RoadSquares(p, color))
  IN \E k \in 1..Len(gs) :
       \/ (gs[k] \cap c.L # {} /\ gs[k] \cap c.R # {})
       \/ (gs[k] \cap c.B # {} /\ gs[k] \cap c.T # {})

FlatCount(p, color) ==
  Popcount(((IF color = White THEN p.White ELSE p.Black) \ p.Standing) \ p.Caps)

\* <<over, winner>>: a road wins (for the player who just moved when both
\* have one); a full board or an empty reserve ends the game on flat count
GameOver(p) ==
  LET wr == HasRoad(p, White)
      br == HasRoad(p, Black)
      full == \A i \in Squares(p.size) : p.Height[i] > 0
      out == \/ p.whiteStones + p.whiteCaps = 0
             \/ p.blackStones + p.blackCaps = 0
      wf == FlatCount(p, White)
      bf == FlatCount(p, Black)
  IN CASE wr /\ br -> <<TRUE, Opp(ToMove(p))>>
       [] wr -> <<TRUE, White>>
       [] br -> <<TRUE, Black>>
       [] full \/ out ->
            <<TRUE, IF wf > bf THEN White ELSE IF bf > wf THEN Black ELSE NoColor>>
       [] OTHER -> <<FALSE, NoColor>>

(***************************************************************************)
(* The evaluator (ai/evaluate.go)                                          *)
(***************************************************************************)
RECURSIVE scoreGroupsFrom(_, _, _, _)
scoreGroupsFrom(c, gs, ws, k) ==
  IF k > Len(gs) THEN 0
  ELSE LET d == Dimensions(c, gs[k])
       IN ws.Groups[d[1]] + ws.Groups[d[2]] + scoreGroupsFrom(c, gs, ws, k + 1)

scoreGroups(ai, gs, ws) == scoreGroupsFrom(ai.c, gs, ws, 1)

\* the contribution of the stacks (height > 1) to <<ws, bs>>
stackScore(w, p) ==
  LET cap(i) == IF p.Height[i] - 1 > p.size - 1 THEN p.size - 1 ELSE p.Height[i] - 1
      bf(i) == Popcount({b \in p.Stacks[i] : b < p.Height[i] - 1})
      wf(i) == p.Height[i] - bf(i) - 1
      acc[i \in -1..(p.size * p.size - 1)] ==
        IF i = -1 THEN <<0, 0>>
        ELSE IF p.Height[i] <= 1 THEN acc[i - 1]
        ELSE <<acc[i - 1][1] + wf(i) * w.Flat
                 + (IF i \in p.White THEN cap(i) * w.Captured ELSE 0),
               acc[i - 1][2] + bf(i) * w.Flat
                 + (IF i \in p.White THEN 0 ELSE cap(i) * w.Captured)>>
  IN acc[p.size * p.size - 1]

\* the score of a finished game, for the side to move
terminalScoreOtherStones(p, winner) ==
  LET pieces == IF ToMove(p) = White THEN WhiteStones(p) ELSE BlackStones(p)
  IN CASE winner = NoColor -> 0
       [] winner = ToMove(p) -> maxEval - MoveNumber(p) + pieces
       [] OTHER -> minEval + MoveNumber(p) - pieces

terminalScore(p, winner) ==
  LET pieces == IF winner = White THEN WhiteStones(p) ELSE BlackStones(p)
  IN CASE winner = NoColor -> 0
       [] winner = ToMove(p) -> maxEval - MoveNumber(p) + pieces
       [] OTHER -> minEval + MoveNumber(p) - pieces

\* <<ws, bs>>: the tempo bonus of the side to move
tempoScoreWhiteOnly(w, p) == <<w.Tempo, 0>>

tempoScore(w, p) ==
  IF ToMove(p) = White THEN <<w.Tempo, 0>> ELSE <<0, w.Tempo>>

\* <<ws, bs>>: top flats, standing stones and capstones
materialScore(w, p) ==
  <<Popcount((p.White \ p.Caps) \ p.Standing) * w.TopFlat
      + Popcount(p.White \cap p.Standing) * w.Standing
      + Popcount(p.White \cap p.Caps) * w.Capstone,
    Popcount((p.Black \ p.Caps) \ p.Standing) * w.TopFlat
      + Popcount(p.Black \cap p.Standing) * w.Standing
      + Popcount(p.Black \cap p.Caps) * w.Capstone>>

\* <<ws, bs>>: the groups of each colour
groupScore(w, m, p) ==
  LET analysis == Analysis(p)
  IN <<scoreGroups(m, analysis.WhiteGroups, w), scoreGroups(m, analysis.BlackGroups, w)>>

\* <<ws, bs>>: the liberties of each colour's road squares
libertyScore(w, m, p) ==
  LET wr == p.White \ p.Standing
      br == p.Black \ p.Standing
      wl == Popcount(Grow(m.c, Not64(p.Black), wr) \ wr)
      bl == Popcount(Grow(m.c, Not64(p.White), br) \ br)
  IN <<w.Liberties * wl, w.Liberties * bl>>

evaluate(w, m, p) ==
  LET go == GameOver(p)
  IN IF go[1]
     THEN terminalScore(p, go[2])
     ELSE LET te == tempoScore(w, p)
              ma == materialScore(w, p)
              st == stackScore(w, p)
              gr == groupScore(w, m, p)
              li == libertyScore(w, m, p)
              ws == te[1] + ma[1] + st[1] + gr[1] + li[1]
              bs == te[2] + ma[2] + st[2] + gr[2] + li[2]
          IN IF ToMove(p) = White THEN ws - bs ELSE bs - ws

(***************************************************************************)
(* Evaluator inputs: 5x5 boards put together from rows, bottom row first.  *)
(***************************************************************************)
Wf == Piece(White, Flat)

Bf == Piece(Black, Flat)

CE == <<>>

CW == <<Wf>>

CB == <<Bf>>

CWs == <<Piece(White, Standing)>>

CBs == <<Piece(Black, Standing)>>

CWc == <<Piece(White, Capstone)>>

CBc == <<Piece(Black, Capstone)>>

RowPool ==
  << <<CW, CW, CW, CW, CW>>,
     <<CB, CB, CB, CB, CB>>,
     <<CE, CE, CE, CE, CE>>,
     <<CW, CB, CW, CB, CW>>,
     <<CB, CW, CB, CW, CB>>,
     <<CWc, <<Wf, Bf>>, CE, CBs, <<Bf, Bf, Wf>> >>,
     <<CBc, CE, <<Bf, Wf, Wf, Bf>>, CWs, CW>>,
     <<<<Wf, Wf, Wf, Wf, Wf, Piece(White, Standing)>>, CWs, CB, CE, CB>>,
     <<CB, CE, CE, CE, CE>>,
     <<CE, CE, CE, CW, CE>> >>

TailPool ==
  << << <<CE, CE, CE, CE, CE>>, <<CE, CE, CE, CE, CE>>, <<CE, CE, CE, CE, CE>> >>,
     << <<CW, CB, CW, CB, CW>>, <<CB, CW, CB, CW, CB>>, <<CW, CB, CW, CB, CW>> >>,
     << <<CW, CB, CWs, CB, CW>>, <<CB, CW, CB, CW, CB>>, <<CW, CB, CW, CB, CW>> >>,
     << <<CE, <<Wf, Bf, Bf>>, CE, CE, CW>>, <<CE, CE, CE, CE, CE>>,
        <<CB, CE, CE, CWs, CE>> >> >>

EvalSize == Len(RowPool[1])

BoardOf(rows) ==
  [i \in Squares(EvalSize) |-> rows[(i \div EvalSize) + 1][(i % EvalSize) + 1]]

EvalBoard(in) ==
  BoardOf(<<RowPool[in.a], RowPool[in.b]>> \o TailPool[in.t])

\* the least number of plies after which the board can stand: a ply places at
\* most one piece, the first ply places a black one, the second a white one
MinPlies(board, s) ==
  LET w == CountOn(board, s, White, FALSE) + CountOn(board, s, White, TRUE)
      b == CountOn(board, s, Black, FALSE) + CountOn(board, s, Black, TRUE)
      kw == IF w = 0 THEN 0 ELSE IF w = 1 THEN 2 ELSE 2 * w - 1
      kb == IF b = 0 THEN 0 ELSE IF b = 1 THEN 1 ELSE 2 * b
  IN IF kw > kb THEN kw ELSE kb

EvalPosition(in) ==
  MakePosition(EvalSize, EvalBoard(in), MinPlies(EvalBoard(in), EvalSize) + in.slack)

\* the reserves are not overdrawn, and both colours are on the board from the
\* second ply on (the first two plies place a piece of the other colour)
ValidPosition(p) ==
  /\ p.whiteStones >= 0 /\ p.blackStones >= 0
  /\ p.whiteCaps >= 0 /\ p.blackCaps >= 0
  /\ p.move >= 1 => p.blackStones + p.blackCaps < Reserve(p.size).stones + Reserve(p.size).caps
  /\ p.move >= 2 => p.whiteStones + p.whiteCaps < Reserve(p.size).stones + Reserve(p.size).caps

EvalInputs ==
  {in \in [a : 1..Len(RowPool), b : 1..Len(RowPool), t : 1..Len(TailPool),
           slack : 0..MaxSlack] : ValidPosition(EvalPosition(in))}

\* the position with the colours swapped: bitboards, stack bits, reserves and
\* the side to move
Mirror(p) ==
  [p EXCEPT !.White = p.Black, !.Black = p.White,
            !.Stacks = [i \in Squares(p.size) |-> (0..(p.Height[i] - 1)) \ p.Stacks[i]],
            !.toMove = Opp(p.toMove),
            !.whiteStones = p.blackStones, !.blackStones = p.whiteStones,
            !.whiteCaps = p.blackCaps, !.blackCaps = p.whiteCaps]

NewEvaluator(s) == [c |-> Precompute(s)]

(***************************************************************************)
(* Moves and the move generator (package tak).  The generator is bounded   *)
(* to placements on the squares of a region; it does not look at the       *)
(* reserve, so a generated move may fail to apply.                         *)
(***************************************************************************)
MoveOf(s, sq, type) == [X |-> sq % s, Y |-> sq \div s, Type |-> type]

SquareOf(s, m) == m.Y * s + m.X

Equal(m, o) == m.X = o.X /\ m.Y = o.Y /\ m.Type = o.Type

RECURSIVE movesFrom(_, _, _, _)
movesFrom(p, squares, types, k) ==
  IF k > Len(squares) THEN <<>>
  ELSE (IF p.Height[squares[k]] = 0
        THEN [t \in 1..Len(types) |-> MoveOf(p.size, squares[k], types[t])]
        ELSE <<>>) \o movesFrom(p, squares, types, k + 1)

AllMoves(g, p) == movesFrom(p, g.squares, g.types, 1)

\* <<child>>, or <<>> when the move breaks a rule
Move(p, m) ==
  LET sq == SquareOf(p.size, m)
      me == ToMove(p)
      isCap == m.Type = PlaceCapstone
      left == IF isCap
              THEN (IF me = White THEN p.whiteCaps ELSE p.blackCaps)
              ELSE (IF me = White THEN p.whiteStones ELSE p.blackStones)
  IN IF \/ TypeOrd[m.Type] >= TypeOrd[SlideLeft]
        \/ m.Type = NoType
        \/ sq \notin Squares(p.size)
        \/ p.Height[sq] # 0
        \/ left <= 0
     THEN <<>>
     ELSE << [p EXCEPT
                !.White = IF me = White THEN @ \cup {sq} ELSE @,
                !.Black = IF me = Black THEN @ \cup {sq} ELSE @,
                !.Standing = IF m.Type = PlaceStanding THEN @ \cup {sq} ELSE @,
                !.Caps = IF isCap THEN @ \cup {sq} ELSE @,
                !.Height = [@ EXCEPT ![sq] = 1],
                !.Stacks = [@ EXCEPT ![sq] = IF me = Black THEN {0} ELSE {}],
                !.move = @ + 1,
                !.toMove = Opp(me),
                !.whiteStones = IF me = White /\ ~isCap THEN @ - 1 ELSE @,
                !.blackStones = IF me = Black /\ ~isCap THEN @ - 1 ELSE @,
                !.whiteCaps = IF me = White /\ isCap THEN @ - 1 ELSE @,
                !.blackCaps = IF me = Black /\ isCap THEN @ - 1 ELSE @] >>

\* what stands on a square whose stack is at most one high
CellCode(p, sq) ==
  IF p.Height[sq] = 0 THEN 0
  ELSE (IF sq \in p.White THEN 1 ELSE 2)
       + (IF sq \in p.Caps THEN 2 ELSE IF sq \in p.Standing THEN 4 ELSE 0)

RECURSIVE regionCode(_, _, _)
regionCode(p, squares, k) ==
  IF k > Len(squares) THEN 0
  ELSE CellCode(p, squares[k]) + 7 * regionCode(p, squares, k + 1)

\* the position's hash.  It tells the positions of a game apart, but for the
\* position g.alias[1] (if any), which has the hash of the position g.alias[2]
Hash(g, p) ==
  LET e == 2 * regionCode(p, g.squares, 1) + (IF ToMove(p) = White THEN 0 ELSE 1)
  IN IF g.alias # <<>> /\ e = g.alias[1] THEN g.alias[2] + 1 ELSE e + 1

(***************************************************************************)
(* The searcher (minimax.go)                                               *)
(***************************************************************************)
lowerBound == 0

exactBound == 1

upperBound == 2

\* a slot of a freshly made table
ZeroMove == [X |-> 0, Y |-> 0, Type |-> NoType]

\* an entry holds a variation ms (part_002) or a single move m (the searcher
\* with null-window re-search).  The position p the entry was stored for,
\* which the source keeps only under debugTable, is kept as <<p>> to state
\* properties of the table; the searcher does not read it
ZeroEntry ==
  [hash |-> 0, depth |-> 0, value |-> 0, bound |-> lowerBound, ms |-> <<>>,
   m |-> ZeroMove, p |-> <<>>]

ZeroStats ==
  [Depth |-> 0, Generated |-> 0, Evaluated |-> 0, Terminal |-> 0, Visited |-> 0,
   CutNodes |-> 0, Cut0 |-> 0, Cut1 |-> 0, CutSearch |-> 0, AllNodes |-> 0,
   TTHits |-> 0]

\* the table is kept as the slots written so far; every other slot is zero
Slot(table, i) == IF i \in DOMAIN table THEN table[i] ELSE ZeroEntry

NewMinimax(cfg) ==
  [cfg |-> cfg, c |-> Precompute(cfg.Size), table |-> <<>>, st |-> ZeroStats]

\* <<te>>, or <<>> for nil
ttGet(table, h) ==
  LET te == Slot(table, h % tableSize)
  IN IF te.hash # h THEN <<>> ELSE <<te>>

\* the table with the slot of h overwritten by te
ttPut(table, h, te) ==
  [i \in DOMAIN table \cup {h % tableSize} |->
     IF i = h % tableSize THEN te ELSE table[i]]

\* math/rand: a generator whose stream is a function of its seed
NewSource(seed) == seed % 16

Int31n(rand, n) ==
  LET r == (rand * 5 + 3) % 16
  IN [v |-> r % n, rand |-> r]

Swap(seq, i, j) ==
  [seq EXCEPT ![i] = seq[j], ![j] = seq[i]]

\* the root shuffle: for i := len-1; i > 0; i-- { j := Int31n(i); swap(j, i) }
RECURSIVE shuffleFrom(_, _, _)
shuffleFrom(moves, rand, i) ==
  IF i <= 0 THEN [moves |-> moves, rand |-> rand]
  ELSE LET d == Int31n(rand, i)
       IN shuffleFrom(Swap(moves, d.v + 1, i + 1), d.rand, i - 1)

\* the pass ends at the variation's move m when m is a placement
endsScanOnSlide(m) == TypeOrd[m.Type] >= TypeOrd[SlideLeft]

endsScan(m) == TypeOrd[m.Type] < TypeOrd[SlideLeft]

\* the reordering pass over moves[i..] (i counts from 1, j from 0 as in the
\* source); err is the index-out-of-range panic of te.ms[0]
RECURSIVE reorderFrom(_, _, _, _, _)
reorderFrom(moves, pv, te, i, j) ==
  IF i > Len(moves) THEN [moves |-> moves, err |-> FALSE]
  ELSE LET m == moves[i]
           sameSquare == j < Len(moves) /\ m.X = pv[1].X /\ m.Y = pv[1].Y
       IN IF Equal(m, pv[1])
          THEN IF endsScan(m)
               THEN [moves |-> Swap(moves, 1, i), err |-> FALSE]
               ELSE reorderFrom(Swap(moves, 1, i), pv, te, i + 1, j)
          ELSE IF te # <<>> /\ j < Len(moves) /\ te[1].ms = <<>>
          THEN [moves |-> moves, err |-> TRUE]
          ELSE IF te # <<>> /\ j < Len(moves) /\ Equal(te[1].ms[1], m)
          THEN reorderFrom(Swap(moves, j + 1, i), pv, te, i + 1, j + 1)
          ELSE IF sameSquare
          THEN reorderFrom(Swap(moves, j + 1, i), pv, te, i + 1, j + 1)
          ELSE reorderFrom(moves, pv, te, i + 1, j)

reorder(moves, pv, te) ==
  IF Len(pv) > 0 THEN reorderFrom(moves, pv, te, 1, 1)
  ELSE [moves |-> moves, err |-> FALSE]

\* whether the stored entry ends the search of a node at once
teSufficesAtBound(te, depth, alpha, beta) ==
  \/ /\ te.depth >= depth
     /\ \/ te.bound = exactBound
        \/ (te.value <= alpha /\ te.bound = upperBound)
        \/ (te.value >= beta /\ te.bound = lowerBound)
  \/ /\ te.bound = exactBound
     /\ (te.value > winThreshold \/ te.value < -winThreshold)

teSuffices(te, depth, alpha, beta) ==
  \/ /\ te.depth >= depth
     /\ \/ te.bound = exactBound
        \/ (te.value < alpha /\ te.bound = upperBound)
        \/ (te.value > beta /\ te.bound = lowerBound)
  \/ /\ te.bound = exactBound
     /\ (te.value > winThreshold \/ te.value < -winThreshold)

Bump(st, f, n) == [st EXCEPT ![f] = @ + n]

\* the bound stored with a node's value
boundOf(improved, alpha, beta) ==
  IF ~improved THEN upperBound
  ELSE IF alpha >= beta THEN lowerBound
  ELSE exactBound

\* the searchers: the one of part_002, whose table entries hold a variation;
\* the one with null-window re-search; and, to compare it with, the latter
\* with the child search of the former, which gives every child the full
\* window
TablePV == "table-pv"

PVS == "pvs"

FullWindow == "full-window"

\* the loop over the moves ends when alpha reaches beta
cutoffAbove(alpha, beta) == alpha > beta

cutoff(alpha, beta) == alpha >= beta

\* The searcher's state s carries, besides table, st and rand, a record of
\* what the call has done so far, which the searcher does not read: the
\* windows the search was called with and the table entries it found.
\* s after a call of the search with the window (alpha, beta); kind tells the
\* root's call, a child's full window, its null window and its re-search
called(s, kind, alpha, beta) ==
  [s EXCEPT !.windows = @ \cup {[kind |-> kind, alpha |-> alpha, beta |-> beta]}]

\* s after the node of p, searched to depth with (alpha, beta), has found
\* the entry te, whose stored move is m (<<>> if it has none); hit tells
\* whether the node returned the entry's value, written whether a search
\* stored the entry
probed(s, te, m, p, depth, alpha, beta, hit) ==
  [s EXCEPT !.probes = @ \cup
     {[depth |-> depth, alpha |-> alpha, beta |-> beta,
       te |-> [depth |-> te.depth, value |-> te.value, bound |-> te.bound],
       hasMove |-> m # <<>>,
       applies |-> m # <<>> /\ Move(p, m[1]) # <<>>,
       written |-> te.p # <<>>,
       hit |-> hit]}]

\* the cutoffs and stores of an iteration, kept to state properties of the
\* counters: the cutoffs at the first, the second and a later searched move,
\* and the entries stored with lowerBound.  The searcher does not read them
ZeroCuts == [first |-> 0, second |-> 0, late |-> 0, lower |-> 0]

\* s after a cutoff at the n-th searched move
cutAt(s, n) ==
  [s EXCEPT !.cuts = Bump(@, IF n = 1 THEN "first" ELSE IF n = 2 THEN "second" ELSE "late", 1)]

\* s after an entry was stored with the given bound
storedAs(s, bound) ==
  [s EXCEPT !.cuts = Bump(@, "lower", IF bound = lowerBound THEN 1 ELSE 0)]

\* how many of moves[1..k] apply to p
searched(p, moves, k) == Cardinality({j \in 1..k : Move(p, moves[j]) # <<>>})

RECURSIVE minimax(_, _, _, _, _, _, _, _, _)
RECURSIVE searchMoves(_, _, _, _, _, _, _, _, _, _, _, _)

\* the body of the loop for moves[i] once its child has returned r (i counts
\* from 0); ends the loop on a cutoff, else goes on with moves[i+1]
afterChild(ai, g, p, ply, depth, moves, i, best, improved, alpha, beta, r) ==
  LET m == moves[i + 1]
      v == -r.v
  IN IF r.err
     THEN [best |-> best, improved |-> improved, alpha |-> alpha, s |-> r.s, err |-> TRUE]
     ELSE IF v > alpha
     THEN IF cutoff(v, beta)
          THEN [best |-> <<m>> \o r.ms, improved |-> TRUE, alpha |-> v,
                s |-> [cutAt(r.s, searched(p, moves, i + 1)) EXCEPT !.st =
                         Bump(Bump(Bump(@, "CutSearch", i + 1), "CutNodes", 1),
                              "Cut0", IF i = 0 THEN 1 ELSE 0)],
                err |-> FALSE]
          ELSE searchMoves(ai, g, r.s, p, ply, depth, moves, i + 1,
                           <<m>> \o r.ms, TRUE, v, beta)
     ELSE searchMoves(ai, g, r.s, p, ply, depth, moves, i + 1,
                      IF Len(best) = 0 THEN <<m>> \o r.ms ELSE best,
                      improved, alpha, beta)

\* the loop over the ordered moves from index i on; s is the searcher's
\* mutable state: table, st (the counters) and rand
searchMoves(ai, g, s, p, ply, depth, moves, i, best, improved, alpha, beta) ==
  IF i >= Len(moves)
  THEN [best |-> best, improved |-> improved, alpha |-> alpha, s |-> s, err |-> FALSE]
  ELSE CHOOSE x \in
         {IF child = <<>>
          THEN searchMoves(ai, g, s, p, ply, depth, moves, i + 1, best, improved, alpha, beta)
          ELSE CHOOSE y \in
                 {afterChild(ai, g, p, ply, depth, moves, i, best, improved, alpha, beta, r) :
                    r \in {minimax(ai, g, called(s, "full", -beta, -alpha),
                                   child[1], ply + 1, depth - 1,
                                   IF Len(best) # 0 THEN Tail(best) ELSE <<>>,
                                   -beta, -alpha)}} : TRUE
          : child \in {Move(p, moves[i + 1])}} : TRUE

\* the node's entry and result once the loop has ended with lp
afterLoop(g, p, depth, beta, h, lp) ==
  LET bound == boundOf(lp.improved, lp.alpha, beta)
      entry == [hash |-> h, depth |-> depth, value |-> lp.alpha,
                bound |-> bound, ms |-> lp.best, m |-> ZeroMove, p |-> <<p>>]
  IN IF lp.err
     THEN [ms |-> <<>>, v |-> 0, s |-> lp.s, err |-> TRUE]
     ELSE [ms |-> lp.best, v |-> lp.alpha,
           s |-> [storedAs(lp.s, bound) EXCEPT
                    !.table = ttPut(@, h, entry),
                    !.st = IF bound = upperBound THEN Bump(@, "AllNodes", 1) ELSE @],
           err |-> FALSE]

\* an inner node: sh is the generated (at the root: shuffled) move list with
\* the generator's state, h the position's hash, te the table's entry
node(ai, g, s, p, ply, depth, pv, alpha, beta, sh, h, te) ==
  LET s0 == [s EXCEPT !.st = Bump(Bump(@, "Visited", 1), "Generated", Len(sh.moves)),
                      !.rand = sh.rand]
      s1 == IF te = <<>> THEN s0
            ELSE probed(s0, te[1], SubSeq(te[1].ms, 1, IF te[1].ms = <<>> THEN 0 ELSE 1),
                        p, depth, alpha, beta,
                        teSuffices(te[1], depth, alpha, beta))
  IN IF te # <<>> /\ teSuffices(te[1], depth, alpha, beta)
     THEN [ms |-> te[1].ms, v |-> te[1].value,
           s |-> [s1 EXCEPT !.st = Bump(@, "TTHits", 1)], err |-> FALSE]
     ELSE CHOOSE x \in
            {IF ord.err
             THEN [ms |-> <<>>, v |-> 0, s |-> s1, err |-> TRUE]
             ELSE CHOOSE y \in
                    {afterLoop(g, p, depth, beta, h, lp) :
                       lp \in {searchMoves(ai, g, s1, p, ply, depth, ord.moves, 0,
                                           pv, FALSE, alpha, beta)}} : TRUE
             : ord \in {reorder(sh.moves, pv, te)}} : TRUE

\* [ms, v, s, err]: the principal variation and value of p, the searcher's
\* state afterwards, and whether the search panicked
minimax(ai, g, s, p, ply, depth, pv, alpha, beta) ==
  IF depth = 0 \/ GameOver(p)[1]
  THEN [ms |-> <<>>, v |-> evaluate(DefaultWeights, ai, p),
        s |-> [s EXCEPT !.st = Bump(@, "Evaluated", 1)], err |-> FALSE]
  ELSE CHOOSE x \in
         {node(ai, g, s, p, ply, depth, pv, alpha, beta, sh, h, ttGet(s.table, h)) :
            sh \in {IF ply = 0
                    THEN shuffleFrom(AllMoves(g, p), s.rand, Len(AllMoves(g, p)) - 1)
                    ELSE [moves |-> AllMoves(g, p), rand |-> s.rand]},
            h \in {Hash(g, p)}} : TRUE

(***************************************************************************)
(* The searcher with null-window re-search (ai/minimax_test.go, which      *)
(* holds it after the regression test).  Its table entries keep one move;  *)
(* a stored move is tried on the position before the entry is trusted.     *)
(* Its moveGenerator is not among the sources and follows the              *)
(* specification's move ordering; the heat map, which only the generator   *)
(* reads, is left out.                                                     *)
(***************************************************************************)
\* the generator's reordering pass (specification, move ordering): the PV
\* move to the front, ending the pass if it is a slide; then the entry's
\* move, then the moves to the PV move's square
RECURSIVE orderFrom(_, _, _, _, _)
orderFrom(moves, pv, te, i, j) ==
  IF i > Len(moves) THEN moves
  ELSE LET m == moves[i]
       IN IF pv # <<>> /\ Equal(m, pv[1])
          THEN IF TypeOrd[m.Type] >= TypeOrd[SlideLeft]
               THEN Swap(moves, 1, i)
               ELSE orderFrom(Swap(moves, 1, i), pv, te, i + 1, j)
          ELSE IF te # <<>> /\ j < Len(moves) /\ Equal(te[1].m, m)
          THEN orderFrom(Swap(moves, j + 1, i), pv, te, i + 1, j + 1)
          ELSE IF pv # <<>> /\ j < Len(moves) /\ m.X = pv[1].X /\ m.Y = pv[1].Y
          THEN orderFrom(Swap(moves, j + 1, i), pv, te, i + 1, j + 1)
          ELSE orderFrom(moves, pv, te, i + 1, j)

\* the moves mg.Next() will hand out, in order, with the state of rand
moveGenerator(g, s, p, ply, pv, te) ==
  CHOOSE x \in
    {[moves |-> orderFrom(sh.moves, pv, te, 1, 1), rand |-> sh.rand] :
       sh \in {IF ply = 0
               THEN shuffleFrom(AllMoves(g, p), s.rand, Len(AllMoves(g, p)) - 1)
               ELSE [moves |-> AllMoves(g, p), rand |-> s.rand]}} : TRUE

RECURSIVE minimaxPVS(_, _, _, _, _, _, _, _, _)
RECURSIVE searchMovesPVS(_, _, _, _, _, _, _, _, _, _, _, _, _)

\* the null-window search's value v is inside the window: search again
researchNever(v, alpha, beta) == FALSE

research(v, alpha, beta) == v > alpha /\ v < beta

\* the search of the i-th legal child: a null window first for i > 1, and
\* the full window again when the value falls inside (alpha, beta)
childPVS(ai, g, s, child, ply, depth, newpv, i, alpha, beta) ==
  IF i > 1 /\ ai.impl = PVS
  THEN CHOOSE x \in
         {IF ~r.err /\ research(-r.v, alpha, beta)
          THEN minimaxPVS(ai, g, called(r.s, "re", -beta, -alpha), child, ply + 1,
                          depth - 1, newpv, -beta, -alpha)
          ELSE r
          : r \in {minimaxPVS(ai, g, called(s, "null", -alpha - 1, -alpha), child,
                              ply + 1, depth - 1, newpv, -alpha - 1, -alpha)}} : TRUE
  ELSE minimaxPVS(ai, g, called(s, "full", -beta, -alpha), child, ply + 1,
                  depth - 1, newpv, -beta, -alpha)

\* the counters after a cutoff at the i-th legal move: the cutoffs at the
\* first and at the second move are counted apart
cutStatsFirstOnly(st, i) ==
  Bump(Bump(st, "CutNodes", 1), IF i = 1 THEN "Cut0" ELSE "CutSearch",
       IF i = 1 THEN 1 ELSE i + 1)

cutStats(st, i) ==
  Bump(Bump(st, "CutNodes", 1),
       IF i = 1 THEN "Cut0" ELSE IF i = 2 THEN "Cut1" ELSE "CutSearch",
       IF i <= 2 THEN 1 ELSE i + 1)

\* the loop's body for the i-th legal move moves[k] once its child returned r
afterChildPVS(ai, g, p, ply, depth, moves, k, i, best, improved, alpha, beta, r) ==
  LET m == moves[k]
      v == -r.v
  IN IF r.err
     THEN [best |-> best, improved |-> improved, alpha |-> alpha, s |-> r.s, err |-> TRUE]
     ELSE IF v > alpha
     THEN IF cutoff(v, beta)
          THEN [best |-> <<m>> \o r.ms, improved |-> TRUE, alpha |-> v,
                s |-> [cutAt(r.s, i) EXCEPT !.st = cutStats(@, i)],
                err |-> FALSE]
          ELSE searchMovesPVS(ai, g, r.s, p, ply, depth, moves, k + 1, i,
                              <<m>> \o r.ms, TRUE, v, beta)
     ELSE searchMovesPVS(ai, g, r.s, p, ply, depth, moves, k + 1, i,
                         IF Len(best) = 0 THEN <<m>> \o r.ms ELSE best,
                         improved, alpha, beta)

\* the loop over the generator's moves from moves[k] on (k counts from 1);
\* i legal moves have been searched so far
searchMovesPVS(ai, g, s, p, ply, depth, moves, k, i, best, improved, alpha, beta) ==
  IF k > Len(moves)
  THEN [best |-> best, improved |-> improved, alpha |-> alpha, s |-> s, err |-> FALSE]
  ELSE CHOOSE x \in
         {IF child = <<>>
          THEN searchMovesPVS(ai, g, s, p, ply, depth, moves, k + 1, i,
                              best, improved, alpha, beta)
          ELSE CHOOSE y \in
                 {afterChildPVS(ai, g, p, ply, depth, moves, k, i + 1,
                                best, improved, alpha, beta, r) :
                    r \in {childPVS(ai, g, s, child[1], ply, depth,
                                    IF Len(best) # 0 THEN Tail(best) ELSE <<>>,
                                    i + 1, alpha, beta)}} : TRUE
          : child \in {Move(p, moves[k])}} : TRUE

\* the node's entry and result once the loop has ended with lp; te.m = best[0]
\* is out of range when best is empty
afterLoopPVS(g, p, depth, beta, h, lp) ==
  LET bound == boundOf(lp.improved, lp.alpha, beta)
  IN IF lp.err \/ lp.best = <<>>
     THEN [ms |-> <<>>, v |-> 0, s |-> lp.s, err |-> TRUE]
     ELSE [ms |-> lp.best, v |-> lp.alpha,
           s |-> [storedAs(lp.s, bound) EXCEPT
                    !.table = ttPut(@, h, [hash |-> h, depth |-> depth,
                                           value |-> lp.alpha, bound |-> bound,
                                           ms |-> <<>>, m |-> lp.best[1],
                                           p |-> <<p>>]),
                    !.st = IF bound = upperBound THEN Bump(@, "AllNodes", 1) ELSE @],
           err |-> FALSE]

\* an inner node; te is the table's entry for the position's hash h
nodePVS(ai, g, s, p, ply, depth, pv, alpha, beta, h, te) ==
  IF te # <<>> /\ teSuffices(te[1], depth, alpha, beta) /\ Move(p, te[1].m) # <<>>
  THEN [ms |-> <<te[1].m>>, v |-> te[1].value,
        s |-> [probed(s, te[1], <<te[1].m>>, p, depth, alpha, beta, TRUE)
                 EXCEPT !.st = Bump(@, "TTHits", 1)],
        err |-> FALSE]
  ELSE CHOOSE x \in
         {CHOOSE y \in
            {afterLoopPVS(g, p, depth, beta, h, lp) :
               lp \in {searchMovesPVS(ai, g,
                         [(IF te = <<>> THEN s
                           ELSE probed(s, te[1], <<te[1].m>>, p, depth, alpha, beta, FALSE))
                            EXCEPT !.st = Bump(@, "Generated", Len(mg.moves)),
                                   !.rand = mg.rand],
                         p, ply, depth, mg.moves, 1, 0, pv, FALSE, alpha, beta)}} : TRUE
          : mg \in {moveGenerator(g, s, p, ply, pv,
                                  IF te # <<>> /\ teSuffices(te[1], depth, alpha, beta)
                                  THEN <<>> ELSE te)}} : TRUE

minimaxPVS(ai, g, s, p, ply, depth, pv, alpha, beta) ==
  IF depth = 0 \/ GameOver(p)[1]
  THEN [ms |-> <<>>, v |-> evaluate(DefaultWeights, ai, p),
        s |-> [s EXCEPT !.st = Bump(Bump(@, "Evaluated", 1), "Terminal",
                                    IF GameOver(p)[1] THEN 1 ELSE 0)],
        err |-> FALSE]
  ELSE CHOOSE x \in
         {nodePVS(ai, g, [s EXCEPT !.st = Bump(@, "Visited", 1)], p, ply, depth,
                  pv, alpha, beta, h, ttGet(s.table, h)) :
            h \in {Hash(g, p)}} : TRUE

(***************************************************************************)
(* Analyze and GetMove, the same in both searchers but for the table       *)
(* entry's variation                                                       *)
(***************************************************************************)
\* the root search of the searcher ai is
rootSearch(ai, g, s, p, depth, ms) ==
  IF ai.impl = TablePV
  THEN minimax(ai, g, called(s, "root", minEval - 1, maxEval + 1), p, 0, depth,
               ms, minEval - 1, maxEval + 1)
  ELSE minimaxPVS(ai, g, called(s, "root", minEval - 1, maxEval + 1), p, 0, depth,
                  ms, minEval - 1, maxEval + 1)

\* the seed of a call's generator: cfg.Seed, or the clock's time when that
\* is 0
seedOfClock(cfg, clock) == clock

seedOf(cfg, clock) == IF cfg.Seed = 0 THEN clock ELSE cfg.Seed

RECURSIVE deepen(_, _, _, _, _, _, _, _, _, _, _)

\* a value beyond the threshold is a proven result and ends the deepening
provenNever(v) == FALSE

proven(v) == v > winThreshold \/ v < -winThreshold

\* what Analyze returns: r's variation, value and searcher state, with the
\* depth of the root's table entry (base) and the iterations that were run
analyzed(r, base, its) ==
  [ms |-> r.ms, v |-> r.v, s |-> r.s, err |-> r.err, base |-> base, its |-> its]

\* the rest of iteration i of the deepening loop once its search returned r
afterSearch(ai, g, p, limit, d, i, base, acc, r) ==
  LET timeUsed == i * d
      branchSum == IF i > 1
                   THEN acc.branchSum + (r.s.st.Evaluated \div (acc.prevEval + 1))
                   ELSE acc.branchSum
      branch == IF i > 2 THEN branchSum \div (i - 1) ELSE 20
      estimate == timeUsed + d * branch
      its == Append(acc.its, [depth |-> i + base, ms |-> r.ms, v |-> r.v,
                              st |-> r.s.st, cuts |-> r.s.cuts])
  IN IF r.err THEN analyzed(r, base, its)
     ELSE IF proven(r.v) THEN analyzed(r, base, its)
     ELSE IF i + base # ai.cfg.Depth /\ limit # 0 /\ estimate > limit
     THEN analyzed(r, base, its)
     ELSE deepen(ai, g, r.s, p, limit, d, i + 1, base, r.ms, r.v,
                 [prevEval |-> r.s.st.Evaluated, branchSum |-> branchSum,
                  its |-> its])

\* the iterations i, i+1, ... of Analyze's deepening loop.  Every iteration
\* takes d ticks of the clock
deepen(ai, g, s, p, limit, d, i, base, ms, v, acc) ==
  IF i + base > ai.cfg.Depth
  THEN analyzed([ms |-> ms, v |-> v, s |-> s, err |-> FALSE], base, acc.its)
  ELSE CHOOSE x \in
         {afterSearch(ai, g, p, limit, d, i, base, acc, r) :
            r \in {rootSearch(ai, g, [s EXCEPT !.st = [ZeroStats EXCEPT !.Depth = i + base],
                                           !.cuts = ZeroCuts],
                              p, i + base, ms)}} : TRUE

\* Analyze on the searcher (cfg, table, st)
analyzeFrom(ai, g, s, p, limit, d, te) ==
  IF ai.cfg.Size # Size(p)
  THEN analyzed([ms |-> <<>>, v |-> 0, s |-> s, err |-> TRUE], 0, <<>>)
  ELSE IF te # <<>> /\ te[1].bound = exactBound
  THEN deepen(ai, g, s, p, limit, d, 1, te[1].depth,
              IF ai.impl = TablePV THEN te[1].ms ELSE <<te[1].m>>, 0,
              [prevEval |-> 0, branchSum |-> 0, its |-> <<>>])
  ELSE deepen(ai, g, s, p, limit, d, 1, 0, <<>>, 0,
              [prevEval |-> 0, branchSum |-> 0, its |-> <<>>])

AnalyzeOf(impl, cfg, g, table, st, p, limit, d, seed) ==
  CHOOSE x \in
    {analyzeFrom(ai, g, s, p, limit, d, ttGet(table, Hash(g, p))) :
       ai \in {[impl |-> impl, cfg |-> cfg, c |-> Precompute(cfg.Size)]},
       s \in {[table |-> table, st |-> st, rand |-> NewSource(seed),
                windows |-> {}, probes |-> {}, cuts |-> ZeroCuts]}} : TRUE

(***************************************************************************)
(* The games the searcher is run on                                        *)
(***************************************************************************)
MaxDepth == 3

MaxSeed == 1

MaxClock == 2

MaxTick == 2

TimeLimit == 21

MaxCalls == 2

MaxLine == 1

StartRows ==
  << <<<<CW, CW, CE, CE, CE>>, <<CE, CE, CE, CE, CE>>, <<CE, CE, CE, CE, CE>>,
       <<CE, CB, CE, CE, CE>>, <<CB, CE, CE, CE, CE>>>>,
     <<<<CW, CW, CW, CW, CE>>, <<CE, CE, CE, CE, CE>>, <<CE, CE, CE, CE, CE>>,
       <<CE, CB, CE, CB, CE>>, <<CB, CE, CB, CE, CE>>>>,
     <<<<CW, CW, CW, CW, CE>>, <<CE, CE, CE, CW, CE>>, <<CE, CE, CE, CE, CE>>,
       <<CE, CB, CE, CB, CE>>, <<CB, CE, CB, CE, CE>>>>,
     <<<<CW, CW, CE, CE, CE>>, <<CE, CE, CE, CE, CE>>, <<CE, CE, CE, CE, CE>>,
       <<CE, CBc, CE, CE, CE>>, <<CB, CE, CE, CE, CE>>>> >>

StartPosition(k) ==
  MakePosition(EvalSize, BoardOf(StartRows[k]), MinPlies(BoardOf(StartRows[k]), EvalSize))

\* a game: the start, the squares and piece types the generator covers, and
\* the hash function.  In the fifth game the generator hands out capstone
\* placements only, and Black's capstone is on the board: once White has
\* played, every generated move fails to apply.  In the sixth game, of four
\* squares, the position three plies on with White on c1 and d2 and Black on
\* c2 has the hash of the start; the seventh game has a position whose hash
\* is 0, the start with White on c2
GamePool ==
  << [start |-> 1, squares |-> <<2, 7, 8>>, types |-> <<PlaceFlat, PlaceCapstone>>,
      alias |-> <<>>],
     [start |-> 2, squares |-> <<4, 9, 14>>, types |-> <<PlaceFlat, PlaceCapstone>>,
      alias |-> <<>>],
     [start |-> 3, squares |-> <<4, 9, 14>>, types |-> <<PlaceFlat, PlaceCapstone>>,
      alias |-> <<>>],
     [start |-> 1, squares |-> <<2, 7, 8>>, types |-> <<PlaceFlat, PlaceCapstone>>,
      alias |-> <<3, 0>>],
     [start |-> 4, squares |-> <<2, 7, 8>>, types |-> <<PlaceCapstone>>,
      alias |-> <<7, 0>>],
     [start |-> 1, squares |-> <<2, 7, 8, 3>>, types |-> <<PlaceFlat>>,
      alias |-> <<129, 0>>],
     [start |-> 1, squares |-> <<2, 7, 8>>, types |-> <<PlaceFlat>>,
      alias |-> <<15, -1>>] >>

Configs ==
  [Size : {EvalSize}, Depth : 0..MaxDepth, Seed : 0..MaxSeed]

RECURSIVE Replay(_, _)
Replay(p, ms) ==
  IF ms = <<>> THEN p ELSE Replay(Move(p, ms[1])[1], Tail(ms))

(***************************************************************************)
(* The searcher's clients                                                  *)
(***************************************************************************)
VARIABLES ein, ev, evm, impl, game, cfg, table, st, pos, line, calls, out, prev, freshRuns,
          oin, oout, pin, ptext, pout

evars == <<ein, ev, evm>>

ovars == <<oin, oout>>

pvars == <<pin, ptext, pout>>

svars == <<impl, game, cfg, table, st, pos, line, calls, out, prev, freshRuns>>

vars == <<ein, ev, evm, impl, game, cfg, table, st, pos, line, calls, out, prev, freshRuns,
          oin, oout, pin, ptext, pout>>

NoEval == ein = [a |-> 1, b |-> 1, t |-> 1, slack |-> 0] /\ ev = <<>> /\ evm = <<>>

NoOrder == oin = [moves |-> <<>>, pv |-> <<>>, te |-> <<>>] /\ oout = <<>>

NoPtn ==
  /\ pin = [X |-> 0, Y |-> 0, Type |-> PlaceFlat, Slides |-> <<>>]
  /\ ptext = <<>> /\ pout = <<>>

NoSearch ==
  /\ impl = TablePV
  /\ game = GamePool[1]
  /\ cfg = [Size |-> EvalSize, Depth |-> 0, Seed |-> 0]
  /\ table = <<>> /\ st = ZeroStats
  /\ pos = StartPosition(1) /\ line = <<>>
  /\ calls = 0 /\ out = <<>> /\ prev = <<>> /\ freshRuns = {}

InitEval ==
  /\ ein \in EvalInputs
  /\ ev = <<>>
  /\ evm = <<>>
  /\ NoSearch
  /\ NoOrder
  /\ NoPtn

Evaluate ==
  /\ ev = <<>>
  /\ ev' = <<evaluate(DefaultWeights, NewEvaluator(EvalSize), EvalPosition(ein))>>
  /\ UNCHANGED <<ein, evm>>
  /\ UNCHANGED svars
  /\ UNCHANGED ovars
  /\ UNCHANGED pvars

EvaluateMirror ==
  /\ evm = <<>>
  /\ evm' = <<evaluate(DefaultWeights, NewEvaluator(EvalSize), Mirror(EvalPosition(ein)))>>
  /\ UNCHANGED <<ein, ev>>
  /\ UNCHANGED svars
  /\ UNCHANGED ovars
  /\ UNCHANGED pvars

NextEval == Evaluate \/ EvaluateMirror

SpecEval == InitEval /\ [][NextEval]_vars

Init ==
  /\ NoEval
  /\ NoOrder
  /\ NoPtn
  /\ impl \in {TablePV, PVS}
  /\ game \in {GamePool[k] : k \in 1..Len(GamePool)}
  /\ cfg \in Configs
  /\ table = <<>>
  /\ st = ZeroStats
  /\ pos = StartPosition(game.start)
  /\ line = <<>>
  /\ calls = 0
  /\ out = <<>>
  /\ prev = <<>>
  /\ freshRuns = {}

\* the searcher is as NewMinimax made it
Fresh == table = <<>> /\ st = ZeroStats

\* what a call returned, with what it was called on
Outcome(op, limit, r) ==
  [op |-> op, call |-> calls, line |-> line, limit |-> limit, fresh |-> Fresh,
   ms |-> r.ms, v |-> r.v, st |-> r.s.st, base |-> r.base, its |-> r.its,
   windows |-> r.s.windows, probes |-> r.s.probes,
   err |-> r.err, crash |-> r.err \/ (op = "GetMove" /\ r.ms = <<>>)]

Called(op, limit, r) ==
  /\ table' = r.s.table
  /\ st' = r.s.st
  /\ out' = <<Outcome(op, limit, r)>>
  /\ prev' = out
  /\ freshRuns' = IF Fresh
                  THEN freshRuns \cup {Outcome(op, limit, r)} ELSE freshRuns
  /\ calls' = calls + 1
  /\ UNCHANGED <<impl, game, cfg, pos, line>>
  /\ UNCHANGED evars
  /\ UNCHANGED ovars
  /\ UNCHANGED pvars

\* the generator covers every node of a search from pos to cfg.Depth
Covered == Len(line) + cfg.Depth <= Len(game.squares)

Analyze ==
  /\ calls < MaxCalls
  /\ Covered
  /\ \E limit \in {0, TimeLimit} :
       \E d \in (IF limit = 0 THEN {0} ELSE 1..MaxTick) :
         \E seed \in {seedOf(cfg, clock) : clock \in 1..MaxClock} :
           \E r \in {AnalyzeOf(impl, cfg, game, table, st, pos, limit, d, seed)} :
             Called("Analyze", limit, r)

\* GetMove is Analyze followed by ms[0]
GetMove ==
  /\ calls < MaxCalls
  /\ Covered
  /\ \E seed \in {seedOf(cfg, clock) : clock \in 1..MaxClock} :
       \E r \in {AnalyzeOf(impl, cfg, game, table, st, pos, 0, 0, seed)} :
         Called("GetMove", 0, r)

\* the client plays the move the last call returned, ms[0]
Play ==
  /\ Len(line) < MaxLine
  /\ out # <<>> /\ ~out[1].crash /\ out[1].ms # <<>>
  /\ out[1].line = line
  /\ ~GameOver(pos)[1]
  /\ Move(pos, out[1].ms[1]) # <<>>
  /\ pos' = Move(pos, out[1].ms[1])[1]
  /\ line' = Append(line, out[1].ms[1])
  /\ UNCHANGED <<impl, game, cfg, table, st, calls, out, prev, freshRuns>>
  /\ UNCHANGED evars
  /\ UNCHANGED ovars
  /\ UNCHANGED pvars

\* the client makes a new searcher with the same configuration
New ==
  /\ ~Fresh
  /\ table' = NewMinimax(cfg).table
  /\ st' = NewMinimax(cfg).st
  /\ prev' = <<>>
  /\ out' = <<>>
  /\ UNCHANGED <<impl, game, cfg, pos, line, calls, freshRuns>>
  /\ UNCHANGED evars
  /\ UNCHANGED ovars
  /\ UNCHANGED pvars

Next == Analyze \/ GetMove \/ Play \/ New

Spec == Init /\ [][Next]_vars

(***************************************************************************)
(* The move ordering of part_002 on its own: the generated moves of a      *)
(* position with two empty squares and a stack of the side to move, in     *)
(* every order (the root's shuffle produces them all), with every first    *)
(* move of the incoming variation and every entry                          *)
(***************************************************************************)
MaxMoves == 4

\* placements on a1 (flat, capstone) and b2, slides of the stack on c1
OrderPool ==
  << [X |-> 0, Y |-> 0, Type |-> PlaceFlat], [X |-> 0, Y |-> 0, Type |-> PlaceCapstone],
     [X |-> 1, Y |-> 1, Type |-> PlaceFlat],
     [X |-> 2, Y |-> 0, Type |-> SlideRight], [X |-> 2, Y |-> 0, Type |-> SlideUp] >>

\* the move lists: up to MaxMoves moves of the pool, none twice, in any order
OrderLists ==
  {[k \in DOMAIN f |-> OrderPool[f[k]]] :
     f \in {f \in UNION {[1..n -> DOMAIN OrderPool] : n \in 1..MaxMoves} :
              \A a, b \in DOMAIN f : f[a] = f[b] => a = b}}

\* incoming variations: none, a move of the pool, a move that is not generated
OrderPVs ==
  {<<>>, <<[X |-> 3, Y |-> 3, Type |-> PlaceFlat]>>}
    \cup {<<OrderPool[k]>> : k \in DOMAIN OrderPool}

\* the table's entry: nil, an entry with a move of the pool, an entry without
\* moves
OrderEntries ==
  {<<>>, <<ZeroEntry>>}
    \cup {<<[ZeroEntry EXCEPT !.ms = <<OrderPool[k]>>]>> : k \in DOMAIN OrderPool}

OrderInputs == [moves : OrderLists, pv : OrderPVs, te : OrderEntries]

InitOrder ==
  /\ oin \in OrderInputs
  /\ oout = <<>>
  /\ NoEval
  /\ NoSearch
  /\ NoPtn

\* the reordering pass of minimax on the generated moves
Reorder ==
  /\ oout = <<>>
  /\ oout' = <<reorder(oin.moves, oin.pv, oin.te)>>
  /\ UNCHANGED oin
  /\ UNCHANGED evars
  /\ UNCHANGED svars
  /\ UNCHANGED pvars

NextOrder == Reorder

SpecOrder == InitOrder /\ [][NextOrder]_vars

(***************************************************************************)
(* Move notation (ptn: ParseMove and FormatMove).  A string is the         *)
(* sequence of its bytes; a move here carries its Slides, the counts       *)
(* dropped along a slide, which are bytes as well.                         *)
(***************************************************************************)
\* the bytes the notation is made of
Ascii ==
  [zero |-> 48, one |-> 49, nine |-> 57, a |-> 97, h |-> 104,
   C |-> 67, F |-> 70, S |-> 83, left |-> 60, right |-> 62, up |-> 43, down |-> 45]

Byte(n) == n % 256

\* the character classes of moveRE
PlaceChars == {Ascii.C, Ascii.F, Ascii.S}

CountChars == Ascii.one..(Ascii.one + 7)

FileChars == Ascii.a..Ascii.h

RankChars == Ascii.one..Ascii.nine

DirectionChars == {Ascii.left, Ascii.right, Ascii.up, Ascii.down}

\* the longest run of count characters of move from index i on
RECURSIVE countRun(_, _)
countRun(move, i) ==
  IF i <= Len(move) /\ move[i] \in CountChars
  THEN <<move[i]>> \o countRun(move, i + 1)
  ELSE <<>>

\* moveRE from index i of move on, with the optional place and carry groups
\* taken or left empty: <<groups>>, or <<>> when that does not match
matchWith(move, i, takePlace, takeCarry) ==
  LET n == Len(move)
      c == i + (IF takePlace THEN 1 ELSE 0)
      q == c + (IF takeCarry THEN 1 ELSE 0)
      d == q + 2
  IN IF /\ takePlace => i <= n /\ move[i] \in PlaceChars
        /\ takeCarry => c <= n /\ move[c] \in CountChars
        /\ q + 1 <= n /\ move[q] \in FileChars /\ move[q + 1] \in RankChars
     THEN LET direction == IF d <= n /\ move[d] \in DirectionChars
                           THEN <<move[d]>> ELSE <<>>
          IN << [place |-> IF takePlace THEN <<move[i]>> ELSE <<>>,
                 carry |-> IF takeCarry THEN <<move[c]>> ELSE <<>>,
                 position |-> <<move[q], move[q + 1]>>,
                 direction |-> direction,
                 drops |-> countRun(move, d + Len(direction))] >>
     ELSE <<>>

\* the match at index i: an optional group takes its character if the rest
\* matches then, and is empty otherwise
matchAt(move, i) ==
  IF matchWith(move, i, TRUE, TRUE) # <<>> THEN matchWith(move, i, TRUE, TRUE)
  ELSE IF matchWith(move, i, TRUE, FALSE) # <<>> THEN matchWith(move, i, TRUE, FALSE)
  ELSE IF matchWith(move, i, FALSE, TRUE) # <<>> THEN matchWith(move, i, FALSE, TRUE)
  ELSE matchWith(move, i, FALSE, FALSE)

\* moveRE.FindStringSubmatch: the leftmost match, <<>> for nil
FindStringSubmatch(move) ==
  LET starts == {i \in 1..Len(move) : matchAt(move, i) # <<>>}
  IN IF starts = {} THEN <<>> ELSE matchAt(move, SetMin(starts))

\* the Slides of a slide that carries stack stones and drops the counts
\* drops[k..]; what is left of the stack after the drops is dropped last
restAlways(stack) == <<Byte(stack)>>

rest(stack) == IF stack > 0 THEN <<Byte(stack)>> ELSE <<>>

RECURSIVE slidesFrom(_, _, _)
slidesFrom(drops, k, stack) ==
  IF k > Len(drops) THEN rest(stack)
  ELSE <<Byte(drops[k] - Ascii.zero)>>
       \o slidesFrom(drops, k + 1, stack - (drops[k] - Ascii.zero))

\* [err, m]: the move, as <<m>>, or the error
ParseMove(move) ==
  LET groups == FindStringSubmatch(move)
  IN IF groups = <<>> THEN [err |-> TRUE, m |-> <<>>]
     ELSE LET g == groups[1]
              x == Byte(g.position[1] - Ascii.a)
              y == Byte(g.position[2] - Ascii.one)
          IN IF g.direction = <<>>
             THEN IF g.carry # <<>> \/ g.drops # <<>>
                  THEN [err |-> TRUE, m |-> <<>>]
                  ELSE [err |-> FALSE,
                        m |-> << [X |-> x, Y |-> y,
                                  Type |-> IF g.place = <<Ascii.S>> THEN PlaceStanding
                                           ELSE IF g.place = <<Ascii.C>> THEN PlaceCapstone
                                           ELSE PlaceFlat,
                                  Slides |-> <<>>] >>]
             ELSE [err |-> FALSE,
                   m |-> << [X |-> x, Y |-> y,
                             Type |-> IF g.direction = <<Ascii.left>> THEN SlideLeft
                                      ELSE IF g.direction = <<Ascii.right>> THEN SlideRight
                                      ELSE IF g.direction = <<Ascii.up>> THEN SlideUp
                                      ELSE SlideDown,
                             Slides |-> slidesFrom(g.drops, 1,
                                          IF g.carry # <<>>
                                          THEN g.carry[1] - Ascii.zero ELSE 1)] >>]

RECURSIVE Sum(_)
Sum(counts) == IF counts = <<>> THEN 0 ELSE Head(counts) + Sum(Tail(counts))

FormatMove(m) ==
  (IF Len(m.Slides) > 0 THEN <<Byte(Ascii.zero + Sum(m.Slides))>> ELSE <<>>)
  \o (IF m.Type = PlaceCapstone THEN <<Ascii.C>>
      ELSE IF m.Type = PlaceStanding THEN <<Ascii.S>> ELSE <<>>)
  \o <<Byte(Ascii.a + m.X), Byte(Ascii.one + m.Y)>>
  \o (IF m.Type = SlideLeft THEN <<Ascii.left>>
      ELSE IF m.Type = SlideRight THEN <<Ascii.right>>
      ELSE IF m.Type = SlideUp THEN <<Ascii.up>>
      ELSE IF m.Type = SlideDown THEN <<Ascii.down>> ELSE <<>>)
  \o [k \in 1..Len(m.Slides) |-> Byte(Ascii.zero + m.Slides[k])]

\* the moves the notation is run on: every kind on every square of the
\* largest board, with up to MaxDrops counts of up to MaxCount stones and
\* MaxStack stones in all; placements with counts, slides without and a stack
\* above the carry limit of 8 are among them
MaxCoord == 7

MaxDrops == 2

MaxCount == 8

MaxStack == 9

DropLists ==
  {counts \in UNION {[1..n -> 1..MaxCount] : n \in 0..MaxDrops} : Sum(counts) <= MaxStack}

PtnMoves ==
  [X : 0..MaxCoord, Y : 0..MaxCoord,
   Type : {PlaceFlat, PlaceStanding, PlaceCapstone,
           SlideLeft, SlideRight, SlideUp, SlideDown},
   Slides : DropLists]

InitPtn ==
  /\ pin \in PtnMoves
  /\ ptext = <<>>
  /\ pout = <<>>
  /\ NoEval
  /\ NoSearch
  /\ NoOrder

\* text := FormatMove(&m)
Format ==
  /\ ptext = <<>>
  /\ ptext' = <<FormatMove(pin)>>
  /\ UNCHANGED <<pin, pout>>
  /\ UNCHANGED evars
  /\ UNCHANGED svars
  /\ UNCHANGED ovars

\* m, err := ParseMove(text)
Parse ==
  /\ ptext # <<>> /\ pout = <<>>
  /\ pout' = <<ParseMove(ptext[1])>>
  /\ UNCHANGED <<pin, ptext>>
  /\ UNCHANGED evars
  /\ UNCHANGED svars
  /\ UNCHANGED ovars

NextPtn == Format \/ Parse

SpecPtn == InitPtn /\ [][NextPtn]_vars

(***************************************************************************)
(* Claims about the searcher, checked under Spec                           *)
(***************************************************************************)
\* the position the last call was made on
OutPos == Replay(StartPosition(game.start), out[1].line)

\* the call happened, returned, and its position was not terminal
Returned == out # <<>> /\ ~out[1].crash /\ ~GameOver(OutPos)[1]

RECURSIVE LegalFrom(_, _)
LegalFrom(p, ms) ==
  \/ ms = <<>>
  \/ /\ Move(p, ms[1]) # <<>>
     /\ LegalFrom(Move(p, ms[1])[1], Tail(ms))

\* some generated move applies in p
Movable(g, p) ==
  \E k \in 1..Len(AllMoves(g, p)) : Move(p, AllMoves(g, p)[k]) # <<>>

\* every position of p's game tree cut at depth that is not a leaf has a
\* generated move that applies
RECURSIVE Playable(_, _, _)
Playable(g, p, depth) ==
  \/ depth = 0
  \/ GameOver(p)[1]
  \/ /\ Movable(g, p)
     /\ \A k \in 1..Len(AllMoves(g, p)) :
          \/ Move(p, AllMoves(g, p)[k]) = <<>>
          \/ Playable(g, Move(p, AllMoves(g, p)[k])[1], depth - 1)

\* the value of p's game tree cut at depth, without window or table
RECURSIVE Negamax(_, _, _, _)
Negamax(ai, g, p, depth) ==
  IF depth = 0 \/ GameOver(p)[1]
  THEN evaluate(DefaultWeights, ai, p)
  ELSE CHOOSE x \in
         {SetMax(S) :
            S \in {{-Negamax(ai, g, c[1], depth - 1) :
                      c \in {Move(p, AllMoves(g, p)[k]) :
                               k \in 1..Len(AllMoves(g, p))} \ {<<>>}}}} : TRUE

\* C1: on a fresh searcher with Depth >= 1 and no time limit, Analyze of a
\* non-terminal position returns the negamax value of the position's tree cut
\* at the depth of the last completed iteration
C1_NegamaxValue ==
  (/\ Returned /\ out[1].fresh /\ out[1].limit = 0 /\ cfg.Depth >= 1
   /\ Playable(game, OutPos, cfg.Depth))
    => out[1].v = Negamax(NewEvaluator(cfg.Size), game, OutPos, out[1].st.Depth)

\* C2: the first move of the returned variation is legal in the position,
\* whatever calls the searcher has served before
C2_FirstMoveLegal ==
  (Returned /\ out[1].ms # <<>>) => Move(OutPos, out[1].ms[1]) # <<>>

\* C3: a call on a non-terminal position returns a variation that is not
\* empty, and GetMove's ms[0] does not fail
C3_NonEmptyPV ==
  (out # <<>> /\ ~GameOver(OutPos)[1]) => (~out[1].crash /\ out[1].ms # <<>>)

\* C4: every move of the returned variation is legal in the position its
\* predecessors lead to
C4_PVLegal ==
  Returned => LegalFrom(OutPos, out[1].ms)

\* C5: the returned value lies in [minEval, maxEval]
C5_ValueInRange ==
  (out # <<>> /\ ~out[1].crash) => (out[1].v >= minEval /\ out[1].v <= maxEval)

\* a first call on a fresh searcher followed by a second call on the same
\* position, both without time limit and with a configured seed
SecondCall ==
  /\ out # <<>> /\ prev # <<>>
  /\ prev[1].fresh /\ prev[1].line = out[1].line
  /\ prev[1].limit = 0 /\ out[1].limit = 0
  /\ ~prev[1].crash /\ ~out[1].crash
  /\ cfg.Seed # 0 /\ cfg.Depth >= 1
  /\ ~GameOver(OutPos)[1]

\* C7: the second call returns the first call's value and a variation as
\* long as the first call's, and counts a table hit
C7_WarmEqualsCold ==
  SecondCall => /\ out[1].v = prev[1].v
                /\ Len(out[1].ms) = Len(prev[1].ms)
                /\ out[1].st.TTHits > 0

\* two calls of Analyze on fresh searchers, on the same position with the
\* same time limit
SameRun(a, b) ==
  a.op = b.op /\ a.line = b.line /\ a.limit = b.limit

SameResult(a, b) ==
  a.ms = b.ms /\ a.v = b.v /\ a.st = b.st /\ a.crash = b.crash

\* C8 as stated: with a nonzero Seed, fresh searchers given the same position
\* return the same variation, value and counters
C8_SeedDetermines ==
  cfg.Seed # 0 =>
    \A a, b \in freshRuns : SameRun(a, b) => SameResult(a, b)

\* C8: with a nonzero Seed and no time limit, fresh searchers given the same
\* position return the same variation, value and counters
C8_SeedDeterminesUntimed ==
  cfg.Seed # 0 =>
    \A a, b \in freshRuns : (SameRun(a, b) /\ a.limit = 0) => SameResult(a, b)

\* two searchers made one after the other have searched the same position to
\* depth 2 or more, with a nonzero Seed and no time limit
C8_Witness ==
  /\ cfg.Seed # 0
  /\ \E a, b \in freshRuns :
       /\ a.call # b.call /\ SameRun(a, b) /\ a.limit = 0
       /\ a.st.Depth >= 2 /\ a.ms # <<>> /\ a.ms = b.ms

(***************************************************************************)
(* Claims about the evaluator, checked under SpecEval                      *)
(***************************************************************************)
EvalIn == EvalPosition(ein)

\* C6: the evaluator's result e satisfies |e| <= maxEval for every position,
\* terminal or not
C6_EvalBounded ==
  ev # <<>> => (minEval <= ev[1] /\ ev[1] <= maxEval)

\* C9 as stated: on a non-terminal position, swapping the colours (bitboards,
\* stack bits, groups, side to move) negates the evaluator's score exactly
C9_MirrorNegates ==
  (ev # <<>> /\ evm # <<>> /\ ~GameOver(EvalIn)[1]) => evm[1] = -ev[1]

\* C9 as amended: on a non-terminal position, swapping the colours (bitboards,
\* stack bits, groups, side to move) leaves the evaluator's score, which is
\* relative to the side to move, unchanged
C9_MirrorPreserves ==
  (ev # <<>> /\ evm # <<>> /\ ~GameOver(EvalIn)[1]) => evm[1] = ev[1]

\* a non-terminal position with a stack, a capstone and a standing stone was
\* scored both ways, and the score is not zero
C9_Witness ==
  /\ ev # <<>> /\ evm # <<>>
  /\ ~GameOver(EvalIn)[1]
  /\ \E i \in Squares(EvalSize) : EvalIn.Height[i] > 2
  /\ EvalIn.Caps # {} /\ EvalIn.Standing # {}
  /\ ev[1] # 0

\* C10: on a terminal position the evaluator returns 0 for a draw,
\* maxEval - move_number + stones when the winner is the side to move and
\* minEval + move_number - stones otherwise, stones being the winner's own
\* remaining stone count
C10_TerminalScore ==
  (ev # <<>> /\ GameOver(EvalIn)[1]) =>
     LET winner == GameOver(EvalIn)[2]
         stones == IF winner = White THEN EvalIn.whiteStones ELSE EvalIn.blackStones
     IN /\ winner = NoColor => ev[1] = 0
        /\ (winner # NoColor /\ winner = EvalIn.toMove) =>
              ev[1] = maxEval - EvalIn.move + stones
        /\ (winner # NoColor /\ winner # EvalIn.toMove) =>
              ev[1] = minEval + EvalIn.move - stones

\* a finished game won by the side that is not to move, whose reserve
\* differs from the loser's, was scored
C10_Witness ==
  /\ ev # <<>>
  /\ GameOver(EvalIn)[1]
  /\ GameOver(EvalIn)[2] = Opp(EvalIn.toMove)
  /\ EvalIn.whiteStones # EvalIn.blackStones

\* a drawn game was scored
C10_WitnessDraw ==
  /\ ev # <<>>
  /\ GameOver(EvalIn)[1]
  /\ GameOver(EvalIn)[2] = NoColor

(***************************************************************************)
(* Claims about the deepening loop, checked under Spec                     *)
(***************************************************************************)
\* a value beyond the win threshold
Beyond(v) == v > winThreshold \/ v < -winThreshold

\* the iterations the last call ran
Its == out[1].its

\* C11: a call without time limit on a non-terminal position, none of whose
\* iterations returned a value beyond the win threshold, has searched to
\* cfg.Depth: its last search has depth cfg.Depth and the counters it returns
\* are those of depth cfg.Depth, whatever the table holds for the root
C11_RunsToDepth ==
  (/\ Returned /\ out[1].limit = 0 /\ cfg.Depth >= 1
   /\ \A k \in 1..Len(Its) : ~Beyond(Its[k].v))
    => /\ Its # <<>>
       /\ Its[Len(Its)].depth = cfg.Depth
       /\ out[1].st.Depth = cfg.Depth

\* C12: the iterations of a call have the depths base+1, base+2, ..., none
\* above cfg.Depth; an iteration whose value is beyond the win threshold is
\* the last one, and the call returns its variation and value
C12_ProvenStops ==
  (out # <<>> /\ ~out[1].err) =>
     /\ \A k \in 1..Len(Its) :
          /\ Its[k].depth = out[1].base + k
          /\ Its[k].depth <= cfg.Depth
          /\ Beyond(Its[k].v) =>
               /\ k = Len(Its)
               /\ out[1].ms = Its[k].ms
               /\ out[1].v = Its[k].v

\* a call ran two iterations or more and stopped below cfg.Depth on a value
\* beyond the win threshold
C12_Witness ==
  /\ out # <<>> /\ ~out[1].err
  /\ Len(Its) >= 2
  /\ Beyond(Its[Len(Its)].v)
  /\ Its[Len(Its)].depth < cfg.Depth
  /\ out[1].v = Its[Len(Its)].v

(***************************************************************************)
(* Claims about a node none of whose moves applies, checked under Spec     *)
(***************************************************************************)
\* the last call searched the root of a position that is not terminal and in
\* which every generated move fails to apply
RootFails ==
  /\ out # <<>>
  /\ ~GameOver(OutPos)[1]
  /\ ~Movable(game, OutPos)
  /\ Its # <<>>

\* C13: when every generated move fails to apply at the root of a
\* non-terminal position, the search ends in a fatal error and returns no
\* variation and value, with or without an incoming variation
C13_RootFailureFatal ==
  RootFails => out[1].err

\* the same, for the calls whose root search was given a variation
C13_HintedRootFailureFatal ==
  (RootFails /\ out[1].base > 0) => out[1].err

(***************************************************************************)
(* Claims about the transposition table, checked under Spec                *)
(***************************************************************************)
\* the entry te bounds t, the value of its position at its depth, as its
\* bound says
Sound(te, t) ==
  /\ te.bound = exactBound => te.value = t
  /\ te.bound = lowerBound => t >= te.value
  /\ te.bound = upperBound => t <= te.value

\* C14: every entry of the table is sound for its position at its depth: an
\* exact entry holds the negamax value, a lower bound is at most that value
\* and an upper bound at least that value
C14_EntriesSound ==
  \A i \in DOMAIN table :
    \A q \in {table[i].p[1]} :
      Playable(game, q, table[i].depth) =>
        Sound(table[i], Negamax(NewEvaluator(cfg.Size), game, q, table[i].depth))

(***************************************************************************)
(* Claims about the windows of the search, checked under Spec              *)
(***************************************************************************)
\* C15: every call of the search, at the root and at a child with the full
\* window, the null window or the re-search's window, has alpha < beta
C15_WindowsOpen ==
  out # <<>> => \A w \in out[1].windows : w.alpha < w.beta

\* a call of Analyze searched children with the full window, with the null
\* window and again after the null window
C15_Witness ==
  /\ out # <<>> /\ ~out[1].err
  /\ {w.kind : w \in out[1].windows} = {"root", "full", "null", "re"}
  /\ \E w \in out[1].windows : w.kind = "null" /\ w.beta = w.alpha + 1

\* the last call was made on a new searcher with null-window re-search, with
\* a configured seed and without time limit, and returned
NullWindowCall ==
  /\ out # <<>> /\ impl = PVS
  /\ out[1].fresh /\ out[1].limit = 0 /\ cfg.Seed # 0
  /\ ~out[1].err

\* what the same call returns when every child is given the full window
FullWindowCall ==
  AnalyzeOf(FullWindow, cfg, game, <<>>, ZeroStats, OutPos, 0, 0, cfg.Seed)

Probes == out[1].probes

\* the entry found is deep enough and exact, an upper bound at or below alpha
\* or a lower bound at or above beta, or it is exact and beyond the threshold
UsableAtBound(pr) ==
  \/ /\ pr.te.depth >= pr.depth
     /\ \/ pr.te.bound = exactBound
        \/ pr.te.bound = upperBound /\ pr.te.value <= pr.alpha
        \/ pr.te.bound = lowerBound /\ pr.te.value >= pr.beta
  \/ pr.te.bound = exactBound /\ Beyond(pr.te.value)

\* the same with an upper bound below alpha or a lower bound above beta
UsableBeyondBound(pr) ==
  \/ /\ pr.te.depth >= pr.depth
     /\ \/ pr.te.bound = exactBound
        \/ pr.te.bound = upperBound /\ pr.te.value < pr.alpha
        \/ pr.te.bound = lowerBound /\ pr.te.value > pr.beta
  \/ pr.te.bound = exactBound /\ Beyond(pr.te.value)

\* C17 as stated: a node returns the value of the entry it finds, and counts
\* a table hit, exactly when the entry is deep enough and exact, an upper
\* bound with value <= alpha or a lower bound with value >= beta, or exact
\* and beyond the win threshold (entries whose move applies)
C17_HitAtBound ==
  out # <<>> =>
    \A pr \in Probes : pr.applies => (pr.hit <=> UsableAtBound(pr))

\* C17 as amended: a node returns the value of the entry it finds, and counts
\* a table hit, exactly when the entry is deep enough and exact, an upper
\* bound with value < alpha or a lower bound with value > beta, or exact and
\* beyond the win threshold, and (in the searcher that tries the stored move)
\* the stored move applies
C17_HitBeyondBound ==
  out # <<>> =>
    /\ \A pr \in Probes :
         pr.hit <=> (UsableBeyondBound(pr) /\ (impl = PVS => pr.applies))
    /\ (Its # <<>> /\ out[1].st.TTHits > 0) => \E pr \in Probes : pr.hit

\* a call found a deep enough upper bound whose value is alpha and searched
\* the node, and found an entry that it returned
C17_Witness ==
  /\ out # <<>> /\ ~out[1].err
  /\ \E pr \in Probes :
       /\ pr.te.depth >= pr.depth /\ pr.applies
       /\ pr.te.bound = upperBound /\ pr.te.value = pr.alpha
       /\ ~pr.hit
  /\ \E pr \in Probes : pr.hit
  /\ out[1].st.TTHits > 0

\* C18: when the entry a node finds would be used but its stored move fails
\* to apply in the node's position, the node does not return the entry's
\* value or variation and counts no table hit
C18_FailedMoveDiscards ==
  out # <<>> =>
    \A pr \in Probes :
      (UsableBeyondBound(pr) /\ pr.hasMove /\ ~pr.applies) => ~pr.hit

\* the same for the searcher that tries the stored move
C18_FailedMoveDiscardsPVS ==
  impl = PVS => C18_FailedMoveDiscards

\* the searcher that tries the stored move found an entry it would have used,
\* whose move fails to apply
C18_WitnessPVS ==
  /\ impl = PVS /\ out # <<>> /\ ~out[1].err
  /\ \E pr \in Probes : UsableBeyondBound(pr) /\ pr.hasMove /\ ~pr.applies

(***************************************************************************)
(* Claims about the move ordering, checked under SpecOrder                 *)
(***************************************************************************)
\* the index (from 1) of the move m in moves, 0 if it is not there
IndexOf(moves, m) ==
  IF \E k \in DOMAIN moves : moves[k] = m
  THEN CHOOSE k \in DOMAIN moves : moves[k] = m
  ELSE 0

\* the pass has run without failing on a variation whose first move is
\* among the generated moves
Ordered ==
  /\ oout # <<>> /\ ~oout[1].err
  /\ oin.pv # <<>>
  /\ IndexOf(oin.moves, oin.pv[1]) > 0

\* C19: after the reordering the first move of the incoming variation, if it
\* is among the generated moves, is at index 0 of the list, and the list is a
\* permutation of the generated list
C19_PVMoveFirst ==
  Ordered =>
    /\ oout[1].moves[1] = oin.pv[1]
    /\ Len(oout[1].moves) = Len(oin.moves)
    /\ {oout[1].moves[k] : k \in DOMAIN oout[1].moves}
         = {oin.moves[k] : k \in DOMAIN oin.moves}

\* the reordered list is a permutation of the generated list
C19_Permutation ==
  (oout # <<>> /\ ~oout[1].err) =>
    /\ Len(oout[1].moves) = Len(oin.moves)
    /\ {oout[1].moves[k] : k \in DOMAIN oout[1].moves}
         = {oin.moves[k] : k \in DOMAIN oin.moves}

\* the move m is one the pass promotes: not the variation's move, and the
\* entry's move or a move on the variation move's square
Promoted(m) ==
  /\ m # oin.pv[1]
  /\ \/ oin.te # <<>> /\ oin.te[1].ms # <<>> /\ Equal(oin.te[1].ms[1], m)
     \/ m.X = oin.pv[1].X /\ m.Y = oin.pv[1].Y

\* the pass has run and has come to the variation's move, which it does
\* unless the move at index 0 is promoted past it
Swapped ==
  /\ Ordered
  /\ ~Promoted(oin.moves[1])

\* the index of the variation's move in the generated list
PVIndex == IndexOf(oin.moves, oin.pv[1])

\* no move behind the variation's move has been moved
Skipped ==
  \A k \in DOMAIN oin.moves : k > PVIndex => oout[1].moves[k] = oin.moves[k]

\* every promoted move of the list has been moved behind the variation's
\* move, in the order of the generated list
Applied ==
  \A k \in DOMAIN oin.moves :
    Promoted(oin.moves[k]) =>
      oout[1].moves[1 + Cardinality({a \in 1..k : Promoted(oin.moves[a])})]
        = oin.moves[k]

PVSlide == TypeOrd[oin.pv[1].Type] >= TypeOrd[SlideLeft]

C20_WitnessSlide ==
  /\ Swapped /\ PVSlide
  /\ \E k \in DOMAIN oin.moves :
       /\ k > PVIndex /\ Promoted(oin.moves[k])
       /\ oout[1].moves[k] # oin.moves[k]

(***************************************************************************)
(* C21: the variations kept in the table                                   *)
(***************************************************************************)
\* the entries of the table of the searcher that keeps variations
Stored == IF impl = TablePV THEN {table[i] : i \in DOMAIN table} ELSE {}

\* C21 (as stated): every stored entry's principal variation has at most
\* depth+1 moves, depth being the entry's stored depth
C21_VariationWithinDepth == \A te \in Stored : Len(te.ms) <= te.depth + 1

(***************************************************************************)
(* C22: the cutoff counters of an iteration                                *)
(***************************************************************************)
\* the counters of iteration it sum up: every cutoff is counted once, at the
\* first move, at the second move, or at a later one
Bucketed(it) == it.st.CutNodes = it.st.Cut0 + it.st.Cut1 + it.cuts.late

\* every cutoff of iteration it stored its node with lowerBound, and no other
\* node was stored so
CutsStored(it) == it.st.CutNodes = it.cuts.lower

C22_WitnessLate ==
  /\ out # <<>> /\ impl = PVS
  /\ \E k \in DOMAIN Its : Its[k].cuts.late > 0 /\ Its[k].st.CutSearch > 0

(***************************************************************************)
(* C23: the entries ttGet hands out                                        *)
(***************************************************************************)
\* C23 (as stated): every entry a node of the last call found in the table
\* had been stored by a search; a searcher as NewMinimax made it hands out
\* none
C23_ProbesWritten ==
  out # <<>> => \A pr \in Probes : pr.written

(***************************************************************************)
(* C24: the move notation, checked under SpecPtn                           *)
(***************************************************************************)
\* a placement without counts, or a slide with at least one count, the counts
\* positive and at most 8 in sum, on a square with 0 <= x, y <= 7
WellFormed(m) ==
  /\ m.X \in 0..7 /\ m.Y \in 0..7
  /\ IF TypeOrd[m.Type] < TypeOrd[SlideLeft]
     THEN m.Slides = <<>>
     ELSE /\ m.Slides # <<>>
          /\ \A k \in DOMAIN m.Slides : m.Slides[k] > 0
          /\ Sum(m.Slides) <= 8

\* C24: ParseMove(FormatMove(m)) returns, without error, a move equal to m
\* for every well-formed move m
C24_RoundTrip ==
  pout # <<>> /\ WellFormed(pin) => ~pout[1].err /\ pout[1].m = <<pin>>

\* a slide of eight stones on h8, dropped in two counts, has come back from
\* its text
C24_Witness ==
  /\ pout # <<>> /\ WellFormed(pin)
  /\ pin.X = 7 /\ pin.Y = 7 /\ pin.Type = SlideDown
  /\ Len(pin.Slides) = 2 /\ Sum(pin.Slides) = 8
  /\ pout[1].m = <<pin>>

\* a capstone placement has come back from its text
C24_WitnessPlace ==
  /\ pout # <<>> /\ WellFormed(pin) /\ pin.Type = PlaceCapstone
  /\ ptext = << <<Ascii.C, Ascii.a + pin.X, Ascii.one + pin.Y>> >>
  /\ pout[1].m = <<pin>>

====
